---- MODULE Spec2Model ----
(***************************************************************************)
(* Model of hossam/tensor.py: the model builder tf_create, the trainer     *)
(* tf_train, the reporter tf_result and the orchestrators my_tf and        *)
(* my_tf_linear.  The deep-learning framework, pandas and matplotlib are   *)
(* opaque: the model records every call the module issues to them, in      *)
(* order, together with the arguments the module computed.  A framework    *)
(* call may raise; the module catches nothing, so the error ends the call. *)
(***************************************************************************)
EXTENDS Integers, Sequences, FiniteSets, TLC

(***************************************************************************)
(* Bounds of the model.                                                    *)
(***************************************************************************)
MaxKeys == 4        \* longest training history (number of metric keys)
MaxUnits == 2       \* longest dense_units list given to my_tf_linear

(***************************************************************************)
(* Python values.  None, strings, lists and arrays are tagged records, so  *)
(* that "is not None" and truthiness are computed as Python computes them. *)
(***************************************************************************)
None == [none |-> TRUE]
Str(s) == [str |-> s]
List(q) == [list |-> q]
Array(name, width) == [array |-> name, width |-> width]

IsNone(v) == "none" \in DOMAIN v

\* bool(v) for None, str and list arguments
Truthy(v) ==
    IF "str" \in DOMAIN v THEN v.str # ""
    ELSE IF "list" \in DOMAIN v THEN Len(v.list) > 0
    ELSE FALSE

Range(q) == {q[i] : i \in 1..Len(q)}

\* q[:n] for n >= 0
Take(q, n) == SubSeq(q, 1, IF n < Len(q) THEN n ELSE Len(q))

\* q[:-1]
DropLast(q) == SubSeq(q, 1, Len(q) - 1)

(***************************************************************************)
(* Metric keys are strings, modelled character by character so that the    *)
(* slice columns[i][:3] and the f-string f"val_{...}" are computed.        *)
(***************************************************************************)
k_loss == <<"l", "o", "s", "s">>
k_mae == <<"m", "a", "e">>
k_acc == <<"a", "c", "c">>
s_val == <<"v", "a", "l">>
s_val_ == <<"v", "a", "l", "_">>
k_val_loss == s_val_ \o k_loss
k_val_mae == s_val_ \o k_mae

MetricKeys == {k_loss, k_mae, k_acc, k_val_loss, k_val_mae}

\* the key sequences of a history dict: no key occurs twice
RECURSIVE KeySeqs(_)
KeySeqs(n) ==
    IF n = 0 THEN {<<>>}
    ELSE LET shorter == KeySeqs(n - 1)
         IN  shorter \cup
             {Append(q, k) : <<q, k>> \in
                 {p \in shorter \X MetricKeys :
                     Len(p[1]) = n - 1 /\ p[2] \notin Range(p[1])}}

Histories == KeySeqs(MaxKeys)

(***************************************************************************)
(* Calls issued to the framework, pandas and matplotlib.                   *)
(***************************************************************************)
CallsNamed(calls, fn) == SelectSeq(calls, LAMBDA c : c.fn = fn)

\* the calls issued up to and including the first one named fault, which raises
RECURSIVE UpToFault(_, _)
UpToFault(calls, fault) ==
    IF calls = <<>> THEN <<>>
    ELSE IF Head(calls).fn = fault THEN <<Head(calls)>>
    ELSE <<Head(calls)>> \o UpToFault(Tail(calls), fault)

Raises(calls, fault) == \E i \in 1..Len(calls) : calls[i].fn = fault

(***************************************************************************)
(* tf_result                                                               *)
(***************************************************************************)
\* c2.index(t) inside try/except: the 0-based position of t, -1 when absent
IndexOrMinus1(c2, t) ==
    IF t \in Range(c2)
    THEN (CHOOSE i \in 1..Len(c2) :
             c2[i] = t /\ \A j \in 1..(i - 1) : c2[j] # t) - 1
    ELSE -1

\* the loop "for i in range(0, s - 1)"; i is the 0-based loop index
RECURSIVE GroupLoop(_, _, _)
GroupLoop(columns, i, group_names) ==
    LET s == Len(columns)
    IN  IF i >= s - 1 THEN group_names
        ELSE IF Take(columns[i + 1], 3) = s_val THEN group_names
        ELSE LET t == s_val_ \o columns[i + 1]
                 c2 == SubSeq(columns, i + 2, s)
                 var_index == IndexOrMinus1(c2, t)
             IN  GroupLoop(columns, i + 1,
                     Append(group_names,
                            IF var_index > -1 THEN <<columns[i + 1], t>>
                                              ELSE <<columns[i + 1]>>))

FigWidth == 7
FigHeight == 5
FigDpi == 100

\* result is the key sequence of result.history
tf_result(result, history_table, fault) ==
    LET \* DataFrame(result.history), then the "epochs" column is added and
        \* made the index, which removes it from the columns again
        df_columns == result
        columns == DropLast(df_columns)
        group_names == GroupLoop(columns, 0, <<>>)
        cols == Len(group_names)
        planned ==
            <<[fn |-> "subplots", nrows |-> 1, ncols |-> cols,
               figsize |-> <<FigWidth * cols, FigHeight>>, dpi |-> FigDpi]>>
            \o [j \in 1..(2 * cols) |->
                   IF j % 2 = 1
                   THEN [fn |-> "plot", y |-> group_names[(j + 1) \div 2],
                         ax |-> (j + 1) \div 2 - 1]
                   ELSE [fn |-> "grid", ax |-> j \div 2 - 1]]
            \o <<[fn |-> "show"], [fn |-> "close"]>>
            \o (IF history_table THEN <<[fn |-> "my_pretty_table"]>> ELSE <<>>)
    IN  [columns |-> columns,
         group_names |-> group_names,
         cols |-> cols,
         calls |-> UpToFault(planned, fault),
         ret |-> None,
         err |-> IF Raises(planned, fault) THEN "FrameworkError" ELSE "none"]

(***************************************************************************)
(* tf_create                                                               *)
(***************************************************************************)
\* Dense(units=..., [input_shape=...,] activation=..., kernel_initializer=...)
Dense(v) ==
    IF "input_shape" \in DOMAIN v
    THEN [units |-> v.units, input_shape |-> v.input_shape,
          activation |-> v.activation, kernel_initializer |-> "GlorotUniform"]
    ELSE [units |-> v.units, activation |-> v.activation,
          kernel_initializer |-> "GlorotUniform"]

\* return load_model(model_path)
tf_create_load(model_path, fault) ==
    [calls |-> <<[fn |-> "load_model", path |-> model_path]>>,
     ret |-> IF fault = "load_model" THEN None
             ELSE [model |-> "loaded", path |-> model_path],
     err |-> IF fault = "load_model" THEN "FrameworkError" ELSE "none"]

\* raise ValueError("dense, loss, and metrics are required arguments")
tf_create_raise == [calls |-> <<>>, ret |-> None, err |-> "ValueError"]

\* Sequential(), one model.add per entry of dense, model.compile
tf_create_build(dense, optimizer, loss, metrics, fault) ==
    LET layers == [i \in 1..Len(dense.list) |-> Dense(dense.list[i])]
        planned ==
            <<[fn |-> "Sequential"]>>
            \o [i \in 1..Len(layers) |-> [fn |-> "add", layer |-> layers[i]]]
            \o <<[fn |-> "compile", optimizer |-> optimizer,
                  loss |-> loss, metrics |-> metrics]>>
    IN  [calls |-> UpToFault(planned, fault),
         ret |-> IF Raises(planned, fault) THEN None
                 ELSE [model |-> "Sequential", layers |-> layers,
                       optimizer |-> optimizer, loss |-> loss,
                       metrics |-> metrics],
         err |-> IF Raises(planned, fault) THEN "FrameworkError" ELSE "none"]

\* mutation of MissingRequired: metrics is not checked
MissingRequired_NoMetrics(dense, loss, metrics) ==
    ~Truthy(dense) \/ ~Truthy(loss)

\* not dense or not loss or not metrics
MissingRequired(dense, loss, metrics) ==
    ~Truthy(dense) \/ ~Truthy(loss) \/ ~Truthy(metrics)

\* mutation of tf_create: the required arguments are checked before model_path
tf_create_CheckFirst(dense, optimizer, loss, metrics, model_path, fault) ==
    IF MissingRequired(dense, loss, metrics) THEN tf_create_raise
    ELSE IF Truthy(model_path) THEN tf_create_load(model_path, fault)
    ELSE tf_create_build(dense, optimizer, loss, metrics, fault)

tf_create(dense, optimizer, loss, metrics, model_path, fault) ==
    IF Truthy(model_path) THEN tf_create_load(model_path, fault)
    ELSE IF MissingRequired(dense, loss, metrics) THEN tf_create_raise
    ELSE tf_create_build(dense, optimizer, loss, metrics, fault)

(***************************************************************************)
(* tf_train                                                                *)
(***************************************************************************)
\* the names the module's import statements bind
ImportedNames ==
    {"np", "dt", "set_seed", "GlorotUniform", "Sequential", "load_model",
     "Dense", "History", "EarlyStopping", "ReduceLROnPlateau", "TensorBoard",
     "Adam", "DataFrame", "plt", "my_pretty_table", "get_random_state",
     "Hyperband"}

EarlyStoppingPatience == 10
ReduceLRPatience == 5
\* factor=0.1, as the fraction 1/ReduceLRFactorInv
ReduceLRFactorInv == 10
HistogramFreq == 1
DefaultEpochs == 500
DefaultBatchSize == 32
DefaultVerbose == 0

\* what model.fit returns; result.history is filled in by the framework and
\* read by tf_result only
FitHistory == [history |-> "model.fit"]

EarlyStoppingCb(verbose) ==
    [cb |-> "EarlyStopping", patience |-> EarlyStoppingPatience,
     restore_best_weights |-> TRUE, verbose |-> verbose]

ReduceLROnPlateauCb(verbose) ==
    [cb |-> "ReduceLROnPlateau", factor |-> <<1, ReduceLRFactorInv>>,
     patience |-> ReduceLRPatience, verbose |-> verbose]

ModelCheckpointCb(checkpoint_path, verbose) ==
    [cb |-> "ModelCheckpoint", filepath |-> checkpoint_path,
     save_best_only |-> TRUE, save_weights_only |-> TRUE, verbose |-> verbose]

TensorBoardCb(tensorboard_path) ==
    [cb |-> "TensorBoard", log_dir |-> tensorboard_path,
     histogram_freq |-> HistogramFreq, write_graph |-> TRUE]

\* mutation of tf_train_callbacks: tensorboard is tested with "is not None"
\* and appended ahead of the LR-reduce callback
tf_train_callbacks_Reordered(early_stopping, reduce_lr, checkpoint_path, tensorboard_path, verbose) ==
    LET cb1 == IF early_stopping THEN <<EarlyStoppingCb(verbose)>> ELSE <<>>
        cb2 == IF reduce_lr THEN <<ReduceLROnPlateauCb(verbose)>> ELSE <<>>
        cb4 == IF ~IsNone(tensorboard_path)
               THEN <<TensorBoardCb(tensorboard_path)>> ELSE <<>>
    IN  IF Truthy(checkpoint_path) /\ "ModelCheckpoint" \notin ImportedNames
        THEN [callbacks |-> cb1 \o cb4 \o cb2, err |-> "NameError"]
        ELSE [callbacks |-> cb1 \o cb4 \o cb2
                            \o (IF Truthy(checkpoint_path)
                                THEN <<ModelCheckpointCb(checkpoint_path, verbose)>>
                                ELSE <<>>),
              err |-> "none"]

\* the callbacks list as the four if-statements build it; the name
\* ModelCheckpoint is looked up only when the checkpoint branch runs, and the
\* lookup fails when no import binds it
tf_train_callbacks(early_stopping, reduce_lr, checkpoint_path, tensorboard_path, verbose) ==
    LET cb1 == IF early_stopping THEN <<EarlyStoppingCb(verbose)>> ELSE <<>>
        cb2 == IF reduce_lr THEN <<ReduceLROnPlateauCb(verbose)>> ELSE <<>>
        cb4 == IF Truthy(tensorboard_path)
               THEN <<TensorBoardCb(tensorboard_path)>> ELSE <<>>
    IN  IF Truthy(checkpoint_path) /\ "ModelCheckpoint" \notin ImportedNames
        THEN [callbacks |-> cb1 \o cb2, err |-> "NameError"]
        ELSE [callbacks |-> cb1 \o cb2
                            \o (IF Truthy(checkpoint_path)
                                THEN <<ModelCheckpointCb(checkpoint_path, verbose)>>
                                ELSE <<>>)
                            \o cb4,
              err |-> "none"]

\* validation_data=(x_test, y_test) if x_test is not None else None
ValidationData(x_test, y_test) ==
    IF ~IsNone(x_test) THEN [tuple |-> <<x_test, y_test>>] ELSE None

Evaluate(model, x, y) ==
    [fn |-> "evaluate", model |-> model, x |-> x, y |-> y, verbose |-> 0,
     return_dict |-> TRUE]

\* mutation of tf_train_evaluate: the test split is evaluated whenever x_test
\* is given
tf_train_evaluate_XTestOnly(model, x_train, y_train, x_test, y_test) ==
    LET has_train == ~IsNone(x_train) /\ ~IsNone(y_train)
        has_test == ~IsNone(x_test)
    IN  [dataset |-> (IF has_train THEN <<"train">> ELSE <<>>)
                     \o (IF has_test THEN <<"test">> ELSE <<>>),
         calls |-> (IF has_train THEN <<Evaluate(model, x_train, y_train)>> ELSE <<>>)
                   \o (IF has_test THEN <<Evaluate(model, x_test, y_test)>> ELSE <<>>)]

\* dataset and the model.evaluate calls that fill result_set
tf_train_evaluate(model, x_train, y_train, x_test, y_test) ==
    LET has_train == ~IsNone(x_train) /\ ~IsNone(y_train)
        has_test == ~IsNone(x_test) /\ ~IsNone(y_test)
    IN  [dataset |-> (IF has_train THEN <<"train">> ELSE <<>>)
                     \o (IF has_test THEN <<"test">> ELSE <<>>),
         calls |-> (IF has_train THEN <<Evaluate(model, x_train, y_train)>> ELSE <<>>)
                   \o (IF has_test THEN <<Evaluate(model, x_test, y_test)>> ELSE <<>>)]

tf_train(model, x_train, y_train, x_test, y_test, epochs, batch_size, early_stopping, reduce_lr, checkpoint_path, tensorboard_path, verbose, fault) ==
    LET cbs == tf_train_callbacks(early_stopping, reduce_lr, checkpoint_path,
                                  tensorboard_path, verbose)
        fit == [fn |-> "fit", model |-> model, x |-> x_train, y |-> y_train,
                epochs |-> epochs, batch_size |-> batch_size,
                validation_data |-> ValidationData(x_test, y_test),
                verbose |-> verbose, callbacks |-> cbs.callbacks]
        ev == tf_train_evaluate(model, x_train, y_train, x_test, y_test)
        planned == <<fit>> \o ev.calls
                   \o <<[fn |-> "DataFrame", index |-> ev.dataset],
                        [fn |-> "my_pretty_table"]>>
    IN  IF cbs.err # "none"
        THEN [callbacks |-> cbs.callbacks, calls |-> <<>>, ret |-> None,
              err |-> cbs.err]
        ELSE [callbacks |-> cbs.callbacks,
              calls |-> UpToFault(planned, fault),
              ret |-> IF Raises(planned, fault) THEN None ELSE FitHistory,
              err |-> IF Raises(planned, fault) THEN "FrameworkError" ELSE "none"]

(***************************************************************************)
(* my_tf_linear: the layer specifications derived from dense_units         *)
(***************************************************************************)
\* mutation of my_tf_linear_dense: every hidden entry gets input_shape
my_tf_linear_dense_AllShaped(dense_units, x_train) ==
    LET hidden == [i \in 1..Len(dense_units) |->
                      [units |-> dense_units[i],
                       input_shape |-> <<x_train.width>>,
                       activation |-> "relu"]]
    IN  IF Len(dense_units) > 0 /\ IsNone(x_train)
        THEN [dense |-> None, err |-> "AttributeError"]
        ELSE [dense |-> List(Append(hidden, [units |-> 1, activation |-> "linear"])),
              err |-> "none"]

\* the loop over enumerate(dense_units) and the final append; reading
\* x_train.shape fails when x_train is None and the loop body runs
my_tf_linear_dense(dense_units, x_train) ==
    LET hidden == [i \in 1..Len(dense_units) |->
                      IF i = 1
                      THEN [units |-> dense_units[i],
                            input_shape |-> <<x_train.width>>,
                            activation |-> "relu"]
                      ELSE [units |-> dense_units[i], activation |-> "relu"]]
    IN  IF Len(dense_units) > 0 /\ IsNone(x_train)
        THEN [dense |-> None, err |-> "AttributeError"]
        ELSE [dense |-> List(Append(hidden, [units |-> 1, activation |-> "linear"])),
              err |-> "none"]

(***************************************************************************)
(* Arguments a caller may pass.                                            *)
(***************************************************************************)
Widths == {1, 10}
UnitChoices == {32, 64}
UnitSeqs == UNION {[1..n -> UnitChoices] : n \in 0..MaxUnits}

XTrainChoices == {None} \cup {Array("x_train", w) : w \in Widths}
YTrainChoices == {None, Array("y_train", 1)}
XTestChoices == {None, Array("x_test", 10)}
YTestChoices == {None, Array("y_test", 1)}
PathChoices(name) == {None, Str(""), Str(name)}
DenseChoices ==
    {None, List(<<>>),
     List(<<[units |-> 32, activation |-> "relu"]>>),
     List(<<[units |-> 64, input_shape |-> <<10>>, activation |-> "relu"],
            [units |-> 1, activation |-> "linear"]>>)}
LossChoices == {None, Str(""), Str("mse")}
MetricsChoices == {None, List(<<>>), List(<<"mae">>)}
DefaultOptimizer == Str("adam")

CreateFaults == {"none", "load_model", "compile"}
TrainFaults == {"none", "fit", "evaluate"}
ResultFaults == {"none", "subplots", "plot"}

(***************************************************************************)
(* State.                                                                  *)
(*   pc     position of the running top-level call                         *)
(*   entry  the function the user called                                   *)
(*   call   activation record of a direct call of tf_create, tf_train or   *)
(*          tf_result: its arguments and what it did (out)                 *)
(*   orch   locals of my_tf / my_tf_linear                                 *)
(* The parameters my_tf only forwards are drawn where the callee receives  *)
(* them; the keys of result.history are drawn where tf_result reads them.  *)
(***************************************************************************)
VARIABLES pc, entry, call, orch

vars == <<pc, entry, call, orch>>

Init ==
    /\ pc = "idle"
    /\ entry = "none"
    /\ call = [fn |-> "none"]
    /\ orch = [fn |-> "none"]

Outcome(out) == IF out.err = "none" THEN "returned" ELSE "raised"

\* mutation of Propagate: the orchestrator carries on after a failed step
Propagate_Swallow(err, next) == next

\* no try/except in my_tf: an exception raised by a worker ends the call,
\* otherwise control moves to the next statement
Propagate(err, next) == IF err = "none" THEN next ELSE "raised"

CreateFrame(dense, loss, metrics, model_path, fault) ==
    [fn |-> "tf_create", dense |-> dense, optimizer |-> DefaultOptimizer,
     loss |-> loss, metrics |-> metrics, model_path |-> model_path,
     fault |-> fault,
     out |-> tf_create(dense, DefaultOptimizer, loss, metrics, model_path, fault)]

TrainFrame(model, x_train, y_train, x_test, y_test, early_stopping, reduce_lr, checkpoint_path, tensorboard_path, fault) ==
    [fn |-> "tf_train", model |-> model, x_train |-> x_train, y_train |-> y_train,
     x_test |-> x_test, y_test |-> y_test, early_stopping |-> early_stopping,
     reduce_lr |-> reduce_lr, checkpoint_path |-> checkpoint_path,
     tensorboard_path |-> tensorboard_path, fault |-> fault,
     out |-> tf_train(model, x_train, y_train, x_test, y_test, DefaultEpochs,
                      DefaultBatchSize, early_stopping, reduce_lr,
                      checkpoint_path, tensorboard_path, DefaultVerbose, fault)]

ResultFrame(result, keys, history_table, fault) ==
    [fn |-> "tf_result", result |-> result, history |-> keys,
     history_table |-> history_table, fault |-> fault,
     out |-> tf_result(keys, history_table, fault)]

(***************************************************************************)
(* Direct calls of the three workers.                                      *)
(***************************************************************************)
Call_tf_create ==
    /\ pc = "idle"
    /\ \E dense \in DenseChoices, loss \in LossChoices, metrics \in MetricsChoices,
          model_path \in PathChoices("model.h5"), fault \in CreateFaults :
          /\ call' = CreateFrame(dense, loss, metrics, model_path, fault)
          /\ pc' = Outcome(call'.out)
    /\ entry' = "tf_create"
    /\ UNCHANGED orch

Call_tf_train ==
    /\ pc = "idle"
    /\ \E x_train \in XTrainChoices, y_train \in YTrainChoices,
          x_test \in XTestChoices, y_test \in YTestChoices,
          early_stopping \in BOOLEAN, reduce_lr \in BOOLEAN,
          checkpoint_path \in PathChoices("ckpt"),
          tensorboard_path \in PathChoices("logs"), fault \in TrainFaults :
          /\ call' = TrainFrame([model |-> "given"], x_train, y_train, x_test,
                                y_test, early_stopping, reduce_lr,
                                checkpoint_path, tensorboard_path, fault)
          /\ pc' = Outcome(call'.out)
    /\ entry' = "tf_train"
    /\ UNCHANGED orch

Call_tf_result ==
    /\ pc = "idle"
    /\ \E keys \in Histories, history_table \in BOOLEAN, fault \in ResultFaults :
          /\ call' = ResultFrame(FitHistory, keys, history_table, fault)
          /\ pc' = Outcome(call'.out)
    /\ entry' = "tf_result"
    /\ UNCHANGED orch

(***************************************************************************)
(* my_tf and my_tf_linear.  The orchestrator keeps what its own code       *)
(* holds: the model tf_create returned, the result tf_train returned, and  *)
(* the error that ended it.  steps lists the workers it has invoked, each  *)
(* with the value it was handed.                                           *)
(***************************************************************************)
OrchFrame(fn, x_train, dense) ==
    [fn |-> fn, x_train |-> x_train, dense |-> dense, steps |-> <<>>,
     model |-> None, result |-> None, ret |-> None, err |-> "none"]

Call_my_tf ==
    /\ pc = "idle"
    /\ \E x_train \in XTrainChoices, dense \in DenseChoices :
          orch' = OrchFrame("my_tf", x_train, dense)
    /\ pc' = "build"
    /\ entry' = "my_tf"
    /\ UNCHANGED call

Call_my_tf_linear ==
    /\ pc = "idle"
    /\ \E x_train \in XTrainChoices, dense_units \in UnitSeqs :
          LET d == my_tf_linear_dense(dense_units, x_train)
              frame == [OrchFrame("my_tf_linear", x_train, d.dense)
                           EXCEPT !.err = d.err]
          IN  /\ orch' = [dense_units |-> dense_units] @@ frame
              /\ pc' = Propagate(d.err, "build")
    /\ entry' = "my_tf_linear"
    /\ UNCHANGED call

\* model = tf_create(...)
my_tf_build ==
    /\ pc = "build"
    /\ \E loss \in LossChoices, metrics \in MetricsChoices,
          model_path \in PathChoices("model.h5"), fault \in CreateFaults :
          LET out == tf_create(orch.dense, DefaultOptimizer, loss, metrics,
                               model_path, fault)
          IN  /\ orch' = [orch EXCEPT
                            !.steps = Append(@, [step |-> "build", arg |-> orch.dense,
                                            ret |-> out.ret, err |-> out.err]),
                            !.model = out.ret,
                            !.err = out.err]
              /\ pc' = Propagate(out.err, "train")
    /\ UNCHANGED <<entry, call>>

\* result = tf_train(model=model, ...)
my_tf_train ==
    /\ pc = "train"
    /\ \E y_train \in YTrainChoices,
          x_test \in XTestChoices, y_test \in YTestChoices,
          early_stopping \in BOOLEAN, reduce_lr \in BOOLEAN,
          checkpoint_path \in PathChoices("ckpt"),
          tensorboard_path \in PathChoices("logs"), fault \in TrainFaults :
          LET out == tf_train(orch.model, orch.x_train, y_train, x_test, y_test,
                              DefaultEpochs, DefaultBatchSize, early_stopping,
                              reduce_lr, checkpoint_path, tensorboard_path,
                              DefaultVerbose, fault)
          IN  /\ orch' = [orch EXCEPT
                            !.steps = Append(@, [step |-> "train", arg |-> orch.model,
                                            ret |-> out.ret, err |-> out.err]),
                            !.result = out.ret,
                            !.err = out.err]
              /\ pc' = Propagate(out.err, "report")
    /\ UNCHANGED <<entry, call>>

\* tf_result(result=result, ...)
my_tf_report ==
    /\ pc = "report"
    /\ \E keys \in Histories, history_table \in BOOLEAN, fault \in ResultFaults :
          LET out == tf_result(keys, history_table, fault)
          IN  /\ orch' = [orch EXCEPT
                            !.steps = Append(@, [step |-> "report", arg |-> orch.result,
                                            ret |-> out.ret, err |-> out.err]),
                            !.err = out.err]
              /\ pc' = Propagate(out.err, "return")
    /\ UNCHANGED <<entry, call>>

\* return model
my_tf_return ==
    /\ pc = "return"
    /\ orch' = [orch EXCEPT !.ret = orch.model]
    /\ pc' = "returned"
    /\ UNCHANGED <<entry, call>>

Next ==
    \/ Call_tf_create
    \/ Call_tf_train
    \/ Call_tf_result
    \/ Call_my_tf
    \/ Call_my_tf_linear
    \/ my_tf_build
    \/ my_tf_train
    \/ my_tf_report
    \/ my_tf_return

Spec == Init /\ [][Next]_vars

(***************************************************************************)
(* Properties.                                                             *)
(***************************************************************************)
IsValKey(k) == Take(k, 4) = s_val_

\* the grouping the documentation describes: one group per key that is not
\* val_-prefixed, paired with its val_ counterpart when that occurs later
RECURSIVE DocumentedGroups(_, _)
DocumentedGroups(keys, i) ==
    IF i > Len(keys) THEN <<>>
    ELSE (IF IsValKey(keys[i]) THEN <<>>
          ELSE IF \E j \in (i + 1)..Len(keys) : keys[j] = s_val_ \o keys[i]
               THEN << <<keys[i], s_val_ \o keys[i]>> >>
               ELSE << <<keys[i]>> >>)
         \o DocumentedGroups(keys, i + 1)

SubplotsCall(calls) == CallsNamed(calls, "subplots")[1]
PlotCount(calls) == Len(CallsNamed(calls, "plot"))

\* C1: tf_result groups every history, in key order, into one group per key
\* that is not val_-prefixed ([k, val_k] when val_k occurs later, else [k]),
\* and renders one subplot per group; keys loss, val_loss, mae, val_mae give
\* [[loss, val_loss], [mae, val_mae]] and 2 subplots.
C1_GroupsPerPlainKey ==
    call.fn = "tf_result" =>
        LET expected == DocumentedGroups(call.history, 1)
        IN  /\ call.out.group_names = expected
            /\ SubplotsCall(call.out.calls).ncols = Len(expected)
            /\ call.out.err = "none" => PlotCount(call.out.calls) = Len(expected)
            /\ call.history = <<k_loss, k_val_loss, k_mae, k_val_mae>> =>
                   /\ call.out.group_names =
                          << <<k_loss, k_val_loss>>, <<k_mae, k_val_mae>> >>
                   /\ SubplotsCall(call.out.calls).ncols = 2

\* C2: for a history of n >= 1 keys none of which is val_-prefixed, tf_result
\* produces n singleton groups in key order and n subplots.
C2_SingletonGroups ==
    (/\ call.fn = "tf_result"
     /\ Len(call.history) >= 1
     /\ \A i \in 1..Len(call.history) : ~IsValKey(call.history[i]))
    => /\ call.out.group_names = [i \in 1..Len(call.history) |-> <<call.history[i]>>]
       /\ call.out.cols = Len(call.history)
       /\ SubplotsCall(call.out.calls).ncols = Len(call.history)

FitCalls(calls) == CallsNamed(calls, "fit")
CbNames(callbacks) == [i \in 1..Len(callbacks) |-> callbacks[i].cb]

\* C3: with a non-empty checkpoint_path, whatever the other flags, tf_train
\* reaches fit without failing and passes it a checkpoint callback set to
\* save only on improvement and weights only, next to the callbacks of the
\* other enabled flags.
C3_CheckpointReachesFit ==
    (call.fn = "tf_train" /\ Truthy(call.checkpoint_path)) =>
        /\ call.out.err # "NameError"
        /\ Len(FitCalls(call.out.calls)) = 1
        /\ LET cbs == FitCalls(call.out.calls)[1].callbacks
           IN  /\ \E i \in 1..Len(cbs) :
                     /\ cbs[i].cb = "ModelCheckpoint"
                     /\ cbs[i].save_best_only
                     /\ cbs[i].save_weights_only
               /\ call.early_stopping => "EarlyStopping" \in Range(CbNames(cbs))
               /\ call.reduce_lr => "ReduceLROnPlateau" \in Range(CbNames(cbs))
               /\ Truthy(call.tensorboard_path) => "TensorBoard" \in Range(CbNames(cbs))

\* C4: tf_create without a model path and with dense, loss or metrics empty
\* or absent raises ValueError before any framework call: nothing is created,
\* added, compiled or loaded.
C4_ConfigErrorBeforeFramework ==
    (/\ call.fn = "tf_create"
     /\ ~Truthy(call.model_path)
     /\ (~Truthy(call.dense) \/ ~Truthy(call.loss) \/ ~Truthy(call.metrics)))
    => /\ call.out.err = "ValueError"
       /\ call.out.calls = <<>>
       /\ IsNone(call.out.ret)

C4_Witness ==
    /\ call.fn = "tf_create"
    /\ IsNone(call.model_path)
    /\ Truthy(call.dense)
    /\ Truthy(call.loss)
    /\ call.metrics = List(<<>>)
    /\ call.out.err = "ValueError"

\* C5: tf_create with a non-empty model path, whatever dense, loss and metrics
\* are, issues load_model for that path and nothing else (no layer, no
\* compile, no ValueError) and returns what load_model returned.
C5_ModelPathBypassesBuild ==
    (call.fn = "tf_create" /\ Truthy(call.model_path)) =>
        /\ call.out.calls = <<[fn |-> "load_model", path |-> call.model_path]>>
        /\ call.out.err # "ValueError"
        /\ call.fault # "load_model" =>
               /\ call.out.err = "none"
               /\ call.out.ret = [model |-> "loaded", path |-> call.model_path]

C5_Witness ==
    /\ call.fn = "tf_create"
    /\ call.model_path = Str("model.h5")
    /\ IsNone(call.dense)
    /\ IsNone(call.loss)
    /\ IsNone(call.metrics)
    /\ call.out.err = "none"
    /\ call.out.ret = [model |-> "loaded", path |-> Str("model.h5")]

\* C6: without a checkpoint path, tf_train invokes fit exactly once with one
\* callback per enabled flag in the order early-stop, LR-reduce, tensorboard;
\* with every flag off the list passed to fit is empty.
C6_CallbacksPerFlag ==
    (call.fn = "tf_train" /\ ~Truthy(call.checkpoint_path)) =>
        /\ Len(FitCalls(call.out.calls)) = 1
        /\ LET cbs == FitCalls(call.out.calls)[1].callbacks
           IN  /\ CbNames(cbs) =
                      (IF call.early_stopping THEN <<"EarlyStopping">> ELSE <<>>)
                      \o (IF call.reduce_lr THEN <<"ReduceLROnPlateau">> ELSE <<>>)
                      \o (IF Truthy(call.tensorboard_path)
                          THEN <<"TensorBoard">> ELSE <<>>)
               /\ (/\ ~call.early_stopping
                   /\ ~call.reduce_lr
                   /\ IsNone(call.tensorboard_path)) => cbs = <<>>

C6_Witness ==
    /\ call.fn = "tf_train"
    /\ IsNone(call.checkpoint_path)
    /\ call.early_stopping
    /\ call.reduce_lr
    /\ call.tensorboard_path = Str("logs")
    /\ Len(FitCalls(call.out.calls)) = 1
    /\ Len(FitCalls(call.out.calls)[1].callbacks) = 3

\* C7: for a non-empty dense_units of length n and features of width w,
\* my_tf_linear hands on n+1 layer specifications: the first is
\* {units: dense_units[0], input_shape: (w,), activation: relu}, entries
\* 1..n-1 are {units: dense_units[i], activation: relu}, the last is
\* {units: 1, activation: linear}; only the first carries input_shape.
C7_LinearLayerSequence ==
    (/\ entry = "my_tf_linear"
     /\ Len(orch.dense_units) >= 1
     /\ ~IsNone(orch.x_train))
    => LET n == Len(orch.dense_units)
           d == orch.dense.list
       IN  /\ orch.err # "AttributeError"
           /\ Len(d) = n + 1
           /\ d[1] = [units |-> orch.dense_units[1],
                      input_shape |-> <<orch.x_train.width>>,
                      activation |-> "relu"]
           /\ \A i \in 2..n :
                  d[i] = [units |-> orch.dense_units[i], activation |-> "relu"]
           /\ d[n + 1] = [units |-> 1, activation |-> "linear"]
           /\ {i \in 1..Len(d) : "input_shape" \in DOMAIN d[i]} = {1}
           /\ Len(orch.steps) >= 1 => orch.steps[1].arg = orch.dense

C7_Witness ==
    /\ entry = "my_tf_linear"
    /\ orch.dense_units = <<64, 32>>
    /\ orch.x_train = Array("x_train", 10)
    /\ Len(orch.steps) >= 1
    /\ orch.steps[1].arg =
           List(<<[units |-> 64, input_shape |-> <<10>>, activation |-> "relu"],
                  [units |-> 32, activation |-> "relu"],
                  [units |-> 1, activation |-> "linear"]>>)

CallIndexes(calls, fn) == {i \in 1..Len(calls) : calls[i].fn = fn}
HasTrain(c) == ~IsNone(c.x_train) /\ ~IsNone(c.y_train)
HasTest(c) == ~IsNone(c.x_test) /\ ~IsNone(c.y_test)

\* C8: tf_train evaluates only after fit has completed; when it returns, the
\* model has been evaluated once on each split that is present (train, then
\* test), the results table has one labelled row per evaluated split (1 row
\* without a test split, 2 with one), and the value returned is fit's history.
C8_EvaluateAfterFit ==
    call.fn = "tf_train" =>
        LET calls == call.out.calls
            evals == CallsNamed(calls, "evaluate")
            splits == (IF HasTrain(call)
                       THEN << <<"train", call.x_train, call.y_train>> >> ELSE <<>>)
                      \o (IF HasTest(call)
                          THEN << <<"test", call.x_test, call.y_test>> >> ELSE <<>>)
        IN  /\ \A i \in CallIndexes(calls, "evaluate") :
                   \E j \in CallIndexes(calls, "fit") : j < i
            /\ call.fault = "fit" => evals = <<>>
            /\ call.out.err = "none" =>
                   /\ Len(evals) = Len(splits)
                   /\ \A i \in 1..Len(splits) :
                          evals[i].x = splits[i][2] /\ evals[i].y = splits[i][3]
                   /\ CallsNamed(calls, "DataFrame")[1].index =
                          [i \in 1..Len(splits) |-> splits[i][1]]
                   /\ HasTrain(call) =>
                          Len(CallsNamed(calls, "DataFrame")[1].index) =
                              IF HasTest(call) THEN 2 ELSE 1
                   /\ call.out.ret = FitHistory

C8_Witness ==
    /\ call.fn = "tf_train"
    /\ HasTrain(call)
    /\ HasTest(call)
    /\ call.out.err = "none"
    /\ Len(CallsNamed(call.out.calls, "evaluate")) = 2
    /\ CallsNamed(call.out.calls, "DataFrame")[1].index = <<"train", "test">>

\* C9: my_tf (and my_tf_linear through it) invokes build, train, report in
\* that order, each at most once; the model handed to train and returned is
\* the one build returned; a step that fails is the last one invoked and its
\* error is the one that reaches the caller.
C9_BuildTrainReport ==
    entry \in {"my_tf", "my_tf_linear"} =>
        LET steps == orch.steps
            n == Len(steps)
        IN  /\ [i \in 1..n |-> steps[i].step] =
                   SubSeq(<<"build", "train", "report">>, 1, n)
            /\ \A i \in 1..(n - 1) : steps[i].err = "none"
            /\ n >= 2 => steps[2].arg = steps[1].ret /\ ~IsNone(steps[2].arg)
            /\ n >= 3 => steps[3].arg = steps[2].ret
            /\ pc = "returned" =>
                   /\ n = 3
                   /\ orch.err = "none"
                   /\ orch.ret = steps[1].ret
            /\ pc = "raised" =>
                   /\ orch.err # "none"
                   /\ IsNone(orch.ret)
                   /\ n >= 1 => steps[n].err = orch.err

C9_Witness ==
    /\ entry = "my_tf"
    /\ pc = "returned"
    /\ Len(orch.steps) = 3
    /\ orch.ret.model = "Sequential"

\* C10: fit receives a validation pair if and only if both x_test and y_test
\* are present, i.e. exactly when the test split is evaluated afterwards, and
\* never a pair with a missing component.
C10_ValidationIffTestSplit ==
    (call.fn = "tf_train" /\ Len(FitCalls(call.out.calls)) = 1) =>
        LET vd == FitCalls(call.out.calls)[1].validation_data
        IN  /\ ~IsNone(vd) <=> HasTest(call)
            /\ ~IsNone(vd) => ~IsNone(vd.tuple[1]) /\ ~IsNone(vd.tuple[2])

====
